---- MODULE Spec2Model ----
(***************************************************************************)
(* Batch processing of PDF files (components/batch_processor.py):          *)
(* ProgressTracker, BatchProcessor.process_directory, _find_files,         *)
(* _process_single_file and the operation registry; the encryption levels  *)
(* of components/pdf_encryption.py; the command line of batch_processor.py.*)
(*                                                                         *)
(* Strings the code computes on (paths, file names) are sequences of       *)
(* character codes; strings the code only compares or stores (operation    *)
(* names, messages) are TLA+ strings.                                      *)
(***************************************************************************)
EXTENDS Integers, Sequences, FiniteSets, TLC

VARIABLES
    tree,          \* the directory entries under input_dir
    recursive,     \* process_directory's recursive argument
    operation,     \* process_directory's operation argument
    params,        \* process_directory's operation_params argument
    hasCallback,   \* whether progress_callback is not None
    dirState,      \* input_dir: "ok", "missing" or "unreadable"
    pattern,       \* process_directory's file_pattern argument
    max_workers,   \* the BatchProcessor's max_workers
    disk,          \* the files written under output_dir: path -> content
    pc,            \* position of the thread that called process_directory
    files,         \* the local `files` (result of _find_files)
    outDirMade,    \* whether os.makedirs(output_dir) has run
    queue,         \* the executor's work queue (submitted, not started)
    tasks,         \* per submitted file: state of its future
    cur,           \* the future the as_completed loop is handling
    results,       \* the local `results` dictionary
    tracker,       \* the ProgressTracker
    ret,           \* what process_directory handed to its caller
    opCalls,       \* log: registry methods invoked, as <<method, file>>
    libLog,        \* log: per file, what its library call returned or raised
    cbCalls,       \* log: per file, number of callback invocations
    cbRaises,      \* log: per file, number of callback invocations that raised
    thr,           \* tracker threads: position and locals of each
    done,          \* log: update_progress calls completed by tracker threads
    now,           \* time.time(), in whole ticks
    snap,          \* what the last get_progress call gave its caller
    estLog,        \* log: estimated_remaining reported after each completion
    cli,           \* a run of the command line's main()
    opcall,        \* one call of an operation method: its params and arguments
    split,         \* a run of PDFSplitter.split_by_pages_per_file
    byp,           \* bypass_scribd tasks sharing one output directory
    pw             \* a run of PDFEncryption.change_password

argVars == <<tree, recursive, operation, params, hasCallback, dirState,
             pattern, max_workers>>
batchVars == <<argVars, disk, pc, files, outDirMade, queue, tasks, cur,
               results, ret, opCalls, libLog, cbCalls, cbRaises>>
threadVars == <<thr, done>>
compVars == <<opcall, split, byp, pw>>
otherVars == <<now, snap, estLog, cli, compVars>>
vars == <<batchVars, tracker, threadVars, otherVars>>

(***************************************************************************)
(* Bounds of the model.                                                    *)
(***************************************************************************)
MaxFiles == 2        \* most files discovery may return in a modelled run
MaxWorkers == 2      \* max_workers given to the BatchProcessor
NThreads == 2        \* threads sharing one tracker
MaxCalls == 3        \* calls the tracker threads issue in all
MaxTotal == 3        \* most files of a tracker followed over time
MaxTime == 3         \* ticks the clock makes while a tracker is followed
MaxCliFiles == 2     \* most PDF files in the command line's input directory
MaxKeys == 2         \* most keys of an operation_params mapping
MaxPages == 4        \* most pages of a PDF that is split
MaxPerFile == 3      \* pages_per_file ranges over -MaxPerFile..MaxPerFile
NBypTasks == 2       \* bypass_scribd tasks running in parallel
MaxSec == 1          \* seconds the clock advances while they run

(***************************************************************************)
(* Character strings.                                                      *)
(***************************************************************************)
\* str.lower() on one character: 'A'..'Z' map to 'a'..'z'
LowerChar(c) == IF c >= 65 /\ c <= 90 THEN c + 32 ELSE c

\* str.lower()
Lower(s) == [i \in 1..Len(s) |-> LowerChar(s[i])]

\* str.endswith(suffix)
EndsWith(s, suffix) ==
    /\ Len(s) >= Len(suffix)
    /\ SubSeq(s, Len(s) - Len(suffix) + 1, Len(s)) = suffix

\* str.rfind(ch): 1-based position of the last ch in s, 0 when absent
RFind(s, ch) ==
    LET hits == {i \in 1..Len(s) : s[i] = ch}
    IN  IF hits = {} THEN 0 ELSE CHOOSE i \in hits : \A j \in hits : j <= i

\* os.path.join(a, b) for a relative b
Join(a, b) == a \o <<47>> \o b

\* os.path.basename(p): what follows the last '/'
Basename(p) == SubSeq(p, RFind(p, 47) + 1, Len(p))

\* pathlib.PurePath.stem: the final component without its last suffix; a
\* leading or a trailing dot starts no suffix
Stem(p) ==
    LET name == Basename(p)
        i == RFind(name, 46)
    IN  IF i > 1 /\ i < Len(name) THEN SubSeq(name, 1, i - 1) ELSE name

\* s < t for Python strings (lexicographic on code points)
RECURSIVE StrLess(_, _)
StrLess(s, t) ==
    IF t = <<>> THEN FALSE
    ELSE IF s = <<>> THEN TRUE
    ELSE IF Head(s) # Head(t) THEN Head(s) < Head(t)
    ELSE StrLess(Tail(s), Tail(t))

\* sorted(S) for a set of strings
RECURSIVE Sorted(_)
Sorted(S) ==
    IF S = {} THEN <<>>
    ELSE LET m == CHOOSE x \in S : \A y \in S \ {x} : StrLess(x, y)
         IN  <<m>> \o Sorted(S \ {m})

Range(s) == {s[i] : i \in DOMAIN s}

(***************************************************************************)
(* The file system under input_dir.                                        *)
(***************************************************************************)
InputDir == <<105, 110>>                       \* "in"
SubDir == <<105, 110, 47, 115, 117, 98>>       \* "in/sub"
OutputDir == <<111, 117, 116>>                 \* "out"
PdfSuffix == <<46, 112, 100, 102>>             \* ".pdf"
ProcessedSuffix == <<95, 112, 114, 111, 99, 101, 115, 115, 101, 100,
                     46, 112, 100, 102>>       \* "_processed.pdf"

\* The entries a modelled tree is drawn from: root is the directory holding
\* the entry, name its file name, kind what the entry is: "file" a regular
\* file, "dir" a directory, "other" anything else (a FIFO, a symbolic link
\* whose target is missing).
Universe ==
    { [root |-> InputDir, name |-> <<97, 46, 112, 100, 102>>, kind |-> "file"],   \* in/a.pdf
      [root |-> InputDir, name |-> <<99, 46, 80, 68, 70>>, kind |-> "file"],      \* in/c.PDF
      [root |-> InputDir, name |-> <<97, 46, 116, 120, 116>>, kind |-> "file"],   \* in/a.txt
      [root |-> InputDir, name |-> <<100, 46, 112, 100, 102>>, kind |-> "dir"],   \* in/d.pdf/
      [root |-> SubDir, name |-> <<97, 46, 112, 100, 102>>, kind |-> "file"] }    \* in/sub/a.pdf

\* The entries of the trees discovery alone is run on
FindUniverse ==
    Universe \cup
    { [root |-> InputDir, name |-> <<101, 46, 112, 100, 102>>, kind |-> "other"],  \* in/e.pdf
      [root |-> SubDir, name |-> <<98, 46, 116, 120, 116>>, kind |-> "file"] }     \* in/sub/b.txt

DirStates == {"ok", "missing", "unreadable"}

\* file_pattern arguments: the default "*.pdf", and "*.txt"
DefaultPattern == <<42, 46, 112, 100, 102>>
Patterns == {DefaultPattern, <<42, 46, 116, 120, 116>>}

\* What scanning the directory gives: its entries, or nothing when the
\* directory is missing or may not be read
Scandir(st, t) == IF st = "ok" THEN t ELSE {}

\* os.listdir(directory) raises OSError unless the directory can be listed
ListdirRaises(st) == st # "ok"

NoExceptOSError(raised) == raised

\* Lines 207-214, try ... except (OSError, IOError): pass -- whether an
\* OSError raised in the try block leaves the function
ExceptOSError(raised) == FALSE

\* BatchProcessor._find_files: whether the call raises.  os.walk is called
\* without onerror and so ignores a directory it cannot scan.
_find_files_raises(st, rec) ==
    IF rec THEN FALSE ELSE ExceptOSError(ListdirRaises(st))

\* BatchProcessor._find_files: the list returned.  os.walk puts in
\* `filenames` every entry that is not a directory; the listdir branch
\* tests os.path.isfile.  pat is never read.
_find_files(st, t, pat, rec) ==
    LET walked == {e \in Scandir(st, t) :
                      e.kind # "dir" /\ EndsWith(Lower(e.name), PdfSuffix)}
        listed == {e \in Scandir(st, t) :
                      /\ e.root = InputDir
                      /\ EndsWith(Lower(e.name), PdfSuffix)
                      /\ e.kind = "file"}
        found == IF rec THEN walked ELSE listed
    IN  Sorted({Join(e.root, e.name) : e \in found})

(***************************************************************************)
(* The operation registry and the operations.                              *)
(***************************************************************************)
\* BatchProcessor.__init__: self.supported_operations, name -> method
Registry ==
    [compress |-> "_compress_operation",
     watermark |-> "_watermark_operation",
     encrypt |-> "_encrypt_operation",
     split |-> "_split_operation",
     clean_metadata |-> "_clean_metadata_operation",
     convert |-> "_convert_operation",
     bypass_scribd |-> "_bypass_scribd_operation"]

SupportedOperations == DOMAIN Registry

\* Operation names a caller may pass: the registry's keys and the name
\* "bypass_metadata", which the registry does not hold.
OperationNames == SupportedOperations \cup {"bypass_metadata"}

\* dict.get(key, default)
Get(d, key, default) == IF key \in DOMAIN d THEN d[key] ELSE default

\* Python values of an encryption level: a str, or a member of the
\* enumeration EncryptionLevel (pdf_encryption.py, lines 18-23)
Str(s) == [type |-> "str", name |-> s]
EncryptionLevel(n) == [type |-> "EncryptionLevel", name |-> n]

\* operation_params values of a modelled call
NoParams == [k \in {} |-> ""]
EncryptParams ==
    { [password |-> "s"],
      [password |-> "s", encryption_level |-> Str("HIGH")],
      [password |-> "s", encryption_level |-> EncryptionLevel("LOW")] }
ParamChoices == {NoParams, [file_type |-> "TXT"]} \cup EncryptParams

\* The keys of operation_params each operation reads with params.get
KeysRead(op) ==
    CASE op = "compress" -> {"mode"}
      [] op = "watermark" -> {"text", "pages"}
      [] op = "encrypt" -> {"password", "encryption_level"}
      [] op = "split" -> {"pages_per_file"}
      [] op = "convert" -> {"file_type"}
      [] op = "bypass_scribd" -> {"file_type", "custom_title"}
      [] OTHER -> {}

\* The operation and operation_params of a modelled call: parameters are
\* given for the operation that reads them
CallChoices ==
    {c \in [operation : OperationNames, params : ParamChoices] :
        DOMAIN c.params \subseteq KeysRead(c.operation)}

\* Exception messages a library call or a callback may raise with
ExcMsgs == {"boom"}

\* The keys of conversion_functions in _convert_operation
ConversionTypes ==
    {"DOC/DOCX", "XLS/XLSX", "PPT/PPTX", "PNG", "JPG/JPEG", "EPUB"}

\* What a call returns or raises: a Python value by name, or an exception.
Returns(v) == [raised |-> FALSE, value |-> v, msg |-> ""]
Raises(m) == [raised |-> TRUE, value |-> "None", msg |-> m]
NotCalled == [raised |-> FALSE, value |-> "not called", msg |-> ""]

\* bool(v) for the values the operations return
Truthy(v) == v \in {"True", "[parts]", "path"}

\* The outcomes of the library call each operation makes. compress_pdf and
\* the conversion functions have no return statement; create_scribd_file
\* returns a path or None and the raise is that of shutil.move.
LibOutcomes(op, p) ==
    LET raising == {Raises(m) : m \in ExcMsgs}
    IN  CASE op = "compress" -> {Returns("None")} \cup raising
          [] op \in {"watermark", "encrypt", "clean_metadata"} ->
                {Returns("True"), Returns("False")} \cup raising
          [] op = "split" -> {Returns("[parts]"), Returns("[]")} \cup raising
          [] op = "convert" ->
                IF Get(p, "file_type", "DOC/DOCX") \in ConversionTypes
                THEN {Returns("None")} \cup raising
                ELSE {NotCalled}
          [] op = "bypass_scribd" ->
                {Returns("path"), Returns("None")} \cup raising
          [] OTHER -> {NotCalled}

CatchAllReportsSuccess(lib) == IF lib.raised THEN Returns("True") ELSE lib

\* try: return <library call> / except Exception: print; return False
CatchAll(lib) == IF lib.raised THEN Returns("False") ELSE lib

_compress_operation(lib, p) == CatchAll(lib)

_watermark_operation(lib, p) == CatchAll(lib)

_encrypt_operation(lib, p) == CatchAll(lib)

_split_operation(lib, p) ==
    CatchAll(IF lib.raised THEN lib
             ELSE Returns(IF lib.value = "[]" THEN "False" ELSE "True"))

_clean_metadata_operation(lib, p) == CatchAll(lib)

_convert_operation(lib, p) ==
    CatchAll(IF Get(p, "file_type", "DOC/DOCX") \in ConversionTypes
             THEN lib
             ELSE Returns("False"))

_bypass_scribd_operation(lib, p) ==
    CatchAll(IF lib.raised THEN lib
             ELSE Returns(IF Truthy(lib.value) THEN "True" ELSE "False"))

\* self.supported_operations[operation](input_file, output_file, params)
CallOperation(op, lib, p) ==
    LET method == Registry[op]
    IN  CASE method = "_compress_operation" -> _compress_operation(lib, p)
          [] method = "_watermark_operation" -> _watermark_operation(lib, p)
          [] method = "_encrypt_operation" -> _encrypt_operation(lib, p)
          [] method = "_split_operation" -> _split_operation(lib, p)
          [] method = "_clean_metadata_operation" ->
                _clean_metadata_operation(lib, p)
          [] method = "_convert_operation" -> _convert_operation(lib, p)
          [] method = "_bypass_scribd_operation" ->
                _bypass_scribd_operation(lib, p)

\* PDFEncryption.encrypt_pdf, pdf_encryption.py lines 84-98: the encryption
\* the writer is given for encryption_level.  Each branch compares with a
\* member of EncryptionLevel; a value equal to none of them takes no branch
\* and pdf_writer.encrypt is not called.
EncryptAt(level) ==
    IF level = EncryptionLevel("NONE") THEN "none"
    ELSE IF level = EncryptionLevel("LOW") THEN "LOW"
    ELSE IF level = EncryptionLevel("MEDIUM") THEN "MEDIUM"
    ELSE IF level = EncryptionLevel("HIGH") THEN "HIGH"
    ELSE "none"

\* _encrypt_operation, line 314: the level handed to encrypt_pdf_file
PassedLevel(p) == Get(p, "encryption_level", Str("MEDIUM"))

ModeOrVerbose(p) == Get(p, "mode", Get(p, "verbose", "medium"))

\* _compress_operation, line 282: the mode handed to compress_pdf
PassedMode(p) == Get(p, "mode", "medium")

\* The arguments each operation takes from params for its library call
\* (None is the string "None")
LibArgs(op, p) ==
    CASE op = "compress" -> [mode |-> PassedMode(p)]
      [] op = "watermark" ->
            [text |-> Get(p, "text", "WATERMARK"),
             pages |-> Get(p, "pages", "None")]
      [] op = "encrypt" ->
            [password |-> Get(p, "password", ""),
             encryption_level |-> PassedLevel(p)]
      [] op = "split" -> [pages_per_file |-> Get(p, "pages_per_file", 1)]
      [] op = "convert" -> [file_type |-> Get(p, "file_type", "DOC/DOCX")]
      [] op = "bypass_scribd" ->
            [file_type |-> Get(p, "file_type", "document"),
             custom_title |-> Get(p, "custom_title", "None")]
      [] OTHER -> [k \in {} |-> ""]

\* Whether the library call of op that ended as lib left a file at
\* output_file: the libraries write it as their last step, the split
\* operation writes its parts under other names
WritesOutput(op, lib) ==
    /\ ~lib.raised
    /\ \/ op \in {"watermark", "encrypt", "clean_metadata"} /\ lib.value = "True"
       \/ op \in {"compress", "convert"} /\ lib.value = "None"
       \/ op = "bypass_scribd" /\ lib.value = "path"

\* What is written at output_file: the input it was made from and the
\* encryption it was written with
Content(input_file, op, p) ==
    [source |-> input_file,
     encryption |-> IF op = "encrypt" THEN EncryptAt(PassedLevel(p))
                    ELSE "none"]

\* The output path _process_single_file derives for an input file
OutputFile(input_file, output_dir) ==
    Join(output_dir, Stem(input_file) \o ProcessedSuffix)

IsSupportedExceptBypass(op) == op \in SupportedOperations \ {"bypass_scribd"}

\* The registry lookup of _process_single_file
IsSupported(op) == op \in SupportedOperations

UnsupportedResultNoName(input_file, op) ==
    [file_path |-> input_file, success |-> FALSE,
     error |-> <<"Unsupported operation">>]

\* The record _process_single_file returns for a name the registry lacks
UnsupportedResult(input_file, op) ==
    [file_path |-> input_file, success |-> FALSE,
     error |-> <<"Unsupported operation: ", op>>]

\* BatchProcessor._process_single_file, given the library call's outcome
_process_single_file(input_file, output_dir, op, p, lib) ==
    IF IsSupported(op)
    THEN LET success == CallOperation(op, lib, p)
         IN  IF success.raised
             THEN [file_path |-> input_file, success |-> FALSE,
                   error |-> <<success.msg>>]
             ELSE IF Truthy(success.value)
             THEN [file_path |-> input_file, success |-> TRUE,
                   output_path |-> OutputFile(input_file, output_dir)]
             ELSE [file_path |-> input_file, success |-> FALSE,
                   error |-> <<"Operation failed">>]
    ELSE UnsupportedResult(input_file, op)

(***************************************************************************)
(* ProgressTracker.                                                        *)
(***************************************************************************)
\* The tracker before process_directory constructs one
NoTracker ==
    [exists |-> FALSE, total_files |-> 0, processed_files |-> 0,
     failed_files |-> 0, current_file |-> <<>>, start_time |-> 0,
     lock |-> 0]

\* ProgressTracker.__init__
ProgressTracker(total) ==
    [exists |-> TRUE, total_files |-> total, processed_files |-> 0,
     failed_files |-> 0, current_file |-> <<>>, start_time |-> now,
     lock |-> 0]

\* ProgressTracker.update_progress run by a thread nobody interleaves with
update_progress(t, file_path, success) ==
    [t EXCEPT !.processed_files = @ + 1,
              !.failed_files = IF success THEN @ ELSE @ + 1,
              !.current_file = Basename(file_path)]

\* a / b on Python numbers, kept as a fraction; err is ZeroDivisionError
Div(a, b) == [num |-> a, den |-> b, err |-> b = 0]

\* The number 0
Zero == [num |-> 0, den |-> 1, err |-> FALSE]

TotalUnchecked(t) == TRUE

\* Line 48: the condition `if self.total_files > 0`
TotalPositive(t) == t.total_files > 0

\* Line 48: processed_files / total_files * 100, or 0
ProgressPercent(t) ==
    IF TotalPositive(t)
    THEN Div(t.processed_files * 100, t.total_files)
    ELSE Zero

\* Lines 51-56: elapsed_time / processed_files * remaining_files, or 0
EstimatedRemaining(t) ==
    IF t.processed_files > 0
    THEN Div((now - t.start_time) * (t.total_files - t.processed_files),
             t.processed_files)
    ELSE Zero

\* ProgressTracker.get_progress: the dictionary returned, time.time()
\* being now
get_progress(t) ==
    [processed |-> t.processed_files,
     total |-> t.total_files,
     failed |-> t.failed_files,
     success |-> t.processed_files - t.failed_files,
     progress_percent |-> ProgressPercent(t),
     current_file |-> t.current_file,
     elapsed_time |-> now - t.start_time,
     estimated_remaining |-> EstimatedRemaining(t),
     is_complete |-> t.processed_files >= t.total_files]

\* ProgressTracker.get_progress as its caller sees it: the dictionary, or
\* the exception of a division by zero
CallGetProgress(t) ==
    [called |-> TRUE,
     raised |-> ProgressPercent(t).err \/ EstimatedRemaining(t).err,
     value |-> get_progress(t)]

(***************************************************************************)
(* BatchProcessor.process_directory.                                       *)
(***************************************************************************)
NoReturn == [kind |-> "none"]

NoResults ==
    [processed_files |-> <<>>, failed_files |-> <<>>, total_files |-> 0,
     success_count |-> 0, failure_count |-> 0]

NoTask == [state |-> "queued", runs |-> 0, output_file |-> <<>>,
           result |-> [success |-> FALSE]]

InitThreads ==
    [t \in 1..NThreads |->
        [pc |-> "idle", file_path |-> <<>>, success |-> TRUE,
         local |-> 0, snap |-> [processed |-> 0, failed |-> 0]]]
NoDone == [issued |-> 0, ok |-> 0, failed |-> 0]

\* No file under output_dir yet
NoDisk == <<>>

\* No get_progress call yet
NoSnap == [called |-> FALSE]

\* No command line run
NoCli == [pc |-> "none"]

\* No component called on its own
NoOpCall == [pc |-> "none"]
NoSplit == [pc |-> "none"]
NoByp == [pc |-> "none"]
NoPw == [pc |-> "none"]
NoComponentRun ==
    /\ opcall = NoOpCall
    /\ split = NoSplit
    /\ byp = NoByp
    /\ pw = NoPw

\* The trees a batch is run on
BatchTrees ==
    {t \in SUBSET Universe :
        Len(_find_files("ok", t, DefaultPattern, TRUE)) <= MaxFiles}

\* A process_directory call about to start, on any tree and arguments
Init ==
    /\ dirState \in DirStates
    /\ tree \in IF dirState = "missing" THEN {{}} ELSE BatchTrees
    /\ pattern = DefaultPattern
    /\ recursive \in BOOLEAN
    /\ \E c \in CallChoices : operation = c.operation /\ params = c.params
    /\ hasCallback \in BOOLEAN
    /\ max_workers \in 1..MaxWorkers
    /\ disk = NoDisk
    /\ now = 0
    /\ snap = NoSnap
    /\ estLog = <<>>
    /\ NoComponentRun
    /\ cli = NoCli
    /\ pc = "start"
    /\ files = <<>>
    /\ outDirMade = FALSE
    /\ queue = <<>>
    /\ tasks = <<>>
    /\ cur = 0
    /\ results = NoResults
    /\ tracker = NoTracker
    /\ ret = NoReturn
    /\ opCalls = {}
    /\ libLog = <<>>
    /\ cbCalls = <<>>
    /\ cbRaises = <<>>
    /\ thr = InitThreads
    /\ done = NoDone

\* Lines 113-119: the dictionary returned when discovery finds nothing
NoFilesResult ==
    [kind |-> "result",
     value |-> [success |-> FALSE,
                error |-> <<"No files found matching the pattern">>,
                processed_files |-> 0,
                failed_files |-> 0]]

ReturnNoFilesAfterMakedirs ==
    /\ pc = "start"
    /\ IF _find_files_raises(dirState, recursive)
       THEN /\ pc' = "raised"
            /\ ret' = [kind |-> "exception", msg |-> "OSError"]
            /\ UNCHANGED outDirMade
       ELSE /\ _find_files(dirState, tree, pattern, recursive) = <<>>
            /\ outDirMade' = TRUE
            /\ pc' = "returned"
            /\ ret' = NoFilesResult
    /\ UNCHANGED <<argVars, disk, files,
                   queue, tasks, cur, results, tracker, opCalls,
                   libLog, cbCalls, cbRaises, threadVars, otherVars>>

\* Lines 110-119: discovery finds nothing and the call returns at once; an
\* exception leaving _find_files would leave process_directory too
ReturnNoFiles ==
    /\ pc = "start"
    /\ IF _find_files_raises(dirState, recursive)
       THEN /\ pc' = "raised"
            /\ ret' = [kind |-> "exception", msg |-> "OSError"]
       ELSE /\ _find_files(dirState, tree, pattern, recursive) = <<>>
            /\ pc' = "returned"
            /\ ret' = NoFilesResult
    /\ UNCHANGED <<argVars, disk, files,
                   outDirMade, queue, tasks, cur, results, tracker, opCalls,
                   libLog, cbCalls, cbRaises, threadVars, otherVars>>

\* Lines 110-147: discovery, makedirs, the tracker, the results dictionary
\* and one submitted task per file
Submit ==
    /\ pc = "start"
    /\ ~_find_files_raises(dirState, recursive)
    /\ LET found == _find_files(dirState, tree, pattern, recursive)
           n == Len(found)
       IN  /\ found # <<>>
           /\ files' = found
           /\ outDirMade' = TRUE
           /\ tracker' = ProgressTracker(n)
           /\ results' = [NoResults EXCEPT !.total_files = n]
           /\ queue' = [i \in 1..n |-> i]
           /\ tasks' = [i \in 1..n |-> NoTask]
           /\ libLog' = [i \in 1..n |-> NotCalled]
           /\ cbCalls' = [i \in 1..n |-> 0]
           /\ cbRaises' = [i \in 1..n |-> 0]
    /\ pc' = "loop"
    /\ UNCHANGED <<argVars, disk, cur, ret,
                   opCalls, threadVars, otherVars>>

Running == {i \in DOMAIN tasks : tasks[i].state = "running"}

PoolUnbounded == TRUE

\* Line 137, ThreadPoolExecutor(max_workers=self.max_workers): a pool
\* thread may take the next queued task
WorkerFree == Cardinality(Running) < max_workers

WorkerStartDropsTask ==
    /\ queue # <<>>
    /\ WorkerFree
    /\ tasks' = tasks
    /\ queue' = Tail(queue)
    /\ UNCHANGED <<argVars, disk, pc, files,
                   outDirMade, cur, results, tracker, ret, opCalls, libLog,
                   cbCalls, cbRaises, threadVars, otherVars>>

\* A pool thread takes the next task of the queue, which thereby runs
\* once more, and derives its output path (lines 238-239)
WorkerStart ==
    /\ queue # <<>>
    /\ WorkerFree
    /\ tasks' = [tasks EXCEPT
                    ![Head(queue)].state = "running",
                    ![Head(queue)].runs = @ + 1,
                    ![Head(queue)].output_file =
                        OutputFile(files[Head(queue)], OutputDir)]
    /\ queue' = Tail(queue)
    /\ UNCHANGED <<argVars, disk, pc, files,
                   outDirMade, cur, results, tracker, ret, opCalls, libLog,
                   cbCalls, cbRaises, threadVars, otherVars>>

\* A pool thread runs _process_single_file to its end; lib is what the
\* operation's library call does
WorkerFinish(i, lib) ==
    /\ tasks[i].state = "running"
    /\ tasks' = [tasks EXCEPT
                    ![i].state = "done",
                    ![i].result = _process_single_file(files[i], OutputDir,
                                                       operation, params, lib)]
    /\ opCalls' = IF IsSupported(operation)
                  THEN opCalls \cup {<<Registry[operation], files[i]>>}
                  ELSE opCalls
    /\ libLog' = [libLog EXCEPT ![i] = lib]
    /\ disk' = IF WritesOutput(operation, lib)
               THEN (tasks[i].output_file :>
                         Content(files[i], operation, params)) @@ disk
               ELSE disk
    /\ UNCHANGED <<argVars, pc, files,
                   outDirMade, queue, cur, results, tracker, ret, cbCalls,
                   cbRaises, threadVars, otherVars>>

\* Lines 150-161: as_completed yields a finished future; its result is
\* appended and counted
TakeCompleted(i) ==
    /\ pc = "loop"
    /\ tasks[i].state = "done"
    /\ LET result == tasks[i].result
       IN  IF result.success
           THEN /\ results' = [results EXCEPT
                                  !.processed_files = Append(@, result),
                                  !.success_count = @ + 1]
                /\ tracker' = update_progress(tracker, files[i], TRUE)
           ELSE /\ results' = [results EXCEPT
                                  !.failed_files = Append(@, result),
                                  !.failure_count = @ + 1]
                /\ tracker' = update_progress(tracker, files[i], FALSE)
    /\ tasks' = [tasks EXCEPT ![i].state = "yielded"]
    /\ cur' = i
    /\ pc' = IF hasCallback THEN "callback" ELSE "loop"
    /\ UNCHANGED <<argVars, disk, files,
                   outDirMade, queue, ret, opCalls, libLog, cbCalls,
                   cbRaises, threadVars, otherVars>>

\* Lines 164-165: the callback returns
CallbackReturns ==
    /\ pc = "callback"
    /\ cbCalls' = [cbCalls EXCEPT ![cur] = @ + 1]
    /\ pc' = "loop"
    /\ UNCHANGED <<argVars, disk, files,
                   outDirMade, queue, tasks, cur, results, tracker, ret,
                   opCalls, libLog, cbRaises, threadVars, otherVars>>

\* The handler of lines 167-175 for an exception e raised inside the try
ExceptHandler(res, file_path, msg) ==
    [res EXCEPT !.failed_files =
                    Append(@, [file_path |-> file_path, success |-> FALSE,
                               error |-> <<msg>>]),
                !.failure_count = @ + 1]

\* Lines 164-175: the callback raises inside the try block; the handler
\* records the file as failed and goes on to line 177
CallbackRaises(msg) ==
    /\ pc = "callback"
    /\ cbCalls' = [cbCalls EXCEPT ![cur] = @ + 1]
    /\ cbRaises' = [cbRaises EXCEPT ![cur] = @ + 1]
    /\ results' = ExceptHandler(results, files[cur], msg)
    /\ tracker' = update_progress(tracker, files[cur], FALSE)
    /\ pc' = "handler_callback"
    /\ UNCHANGED <<argVars, disk, files,
                   outDirMade, queue, tasks, cur, ret, opCalls, libLog,
                   threadVars, otherVars>>

\* Lines 177-178: the callback invoked from the handler returns
HandlerCallbackReturns ==
    /\ pc = "handler_callback"
    /\ cbCalls' = [cbCalls EXCEPT ![cur] = @ + 1]
    /\ pc' = "loop"
    /\ UNCHANGED <<argVars, disk, files,
                   outDirMade, queue, tasks, cur, results, tracker, ret,
                   opCalls, libLog, cbRaises, threadVars, otherVars>>

\* Lines 177-178: the callback invoked from the handler raises; nothing
\* catches it and it leaves the with block
HandlerCallbackRaises(msg) ==
    /\ pc = "handler_callback"
    /\ cbCalls' = [cbCalls EXCEPT ![cur] = @ + 1]
    /\ cbRaises' = [cbRaises EXCEPT ![cur] = @ + 1]
    /\ ret' = [kind |-> "pending exception", msg |-> msg]
    /\ pc' = "unwind"
    /\ UNCHANGED <<argVars, disk, files,
                   outDirMade, queue, tasks, cur, results, tracker, opCalls,
                   libLog, threadVars, otherVars>>

ShutdownNoWait == TRUE

\* Line 137, the with block's exit: executor.shutdown(wait=True) returns
\* when every submitted task has run
AllTasksOver == \A i \in DOMAIN tasks : tasks[i].state \in {"done", "yielded"}

\* Line 137: the with block's exit, executor.shutdown(wait=True), on the
\* way out with an exception; the exception then reaches the caller
Propagate ==
    /\ pc = "unwind"
    /\ AllTasksOver
    /\ ret' = [kind |-> "exception", msg |-> ret.msg]
    /\ pc' = "raised"
    /\ UNCHANGED <<argVars, disk, files,
                   outDirMade, queue, tasks, cur, results, tracker, opCalls,
                   libLog, cbCalls, cbRaises, threadVars, otherVars>>

\* Lines 150, 180-181: every future was yielded; the result is returned
Return ==
    /\ pc = "loop"
    /\ \A i \in DOMAIN tasks : tasks[i].state = "yielded"
    /\ ret' = [kind |-> "result",
               value |-> [processed_files |-> results.processed_files,
                          failed_files |-> results.failed_files,
                          total_files |-> results.total_files,
                          success_count |-> results.success_count,
                          failure_count |-> results.failure_count,
                          success |-> results.failure_count = 0]]
    /\ pc' = "returned"
    /\ UNCHANGED <<argVars, disk, files,
                   outDirMade, queue, tasks, cur, results, tracker, opCalls,
                   libLog, cbCalls, cbRaises, threadVars, otherVars>>

Next ==
    \/ ReturnNoFiles
    \/ Submit
    \/ WorkerStart
    \/ \E i \in DOMAIN tasks :
          \E lib \in LibOutcomes(operation, params) : WorkerFinish(i, lib)
    \/ \E i \in DOMAIN tasks : TakeCompleted(i)
    \/ CallbackReturns
    \/ \E msg \in ExcMsgs : CallbackRaises(msg)
    \/ HandlerCallbackReturns
    \/ \E msg \in ExcMsgs : HandlerCallbackRaises(msg)
    \/ Propagate
    \/ Return

Spec == Init /\ [][Next]_vars

\* The steps of the pool's worker threads and those of the thread that
\* called process_directory
WorkerStep ==
    \/ WorkerStart
    \/ \E i \in DOMAIN tasks :
          \E lib \in LibOutcomes(operation, params) : WorkerFinish(i, lib)

MainStep ==
    \/ ReturnNoFiles
    \/ Submit
    \/ \E i \in DOMAIN tasks : TakeCompleted(i)
    \/ CallbackReturns
    \/ \E msg \in ExcMsgs : CallbackRaises(msg)
    \/ HandlerCallbackReturns
    \/ \E msg \in ExcMsgs : HandlerCallbackRaises(msg)
    \/ Propagate
    \/ Return

\* process_directory with its default recursive = True on a directory that
\* can be listed, with an operation whose library call returns or raises
InitFair ==
    /\ Init
    /\ dirState = "ok"
    /\ recursive
    /\ operation = "clean_metadata"

\* Every operation and every callback invocation ends (WorkerFinish and
\* the callback steps are single steps) and the scheduler lets a thread
\* that can take a step take one
SpecFair ==
    InitFair /\ [][Next]_vars /\ WF_vars(WorkerStep) /\ WF_vars(MainStep)

(***************************************************************************)
(* ProgressTracker shared by threads: update_progress and get_progress     *)
(* step by step, each `+= 1` a load followed by a store.                   *)
(***************************************************************************)
\* file_path arguments of the modelled update_progress calls
TrackerPaths == Range(_find_files("ok", Universe, DefaultPattern, FALSE))

\* One tracker and NThreads threads about to call it
InitTracker ==
    /\ tree = {}
    /\ dirState = "ok"
    /\ pattern = DefaultPattern
    /\ recursive = FALSE
    /\ operation = "compress"
    /\ params = NoParams
    /\ hasCallback = FALSE
    /\ max_workers = 1
    /\ disk = NoDisk
    /\ now = 0
    /\ snap = NoSnap
    /\ estLog = <<>>
    /\ NoComponentRun
    /\ cli = NoCli
    /\ pc = "threads"
    /\ files = <<>>
    /\ outDirMade = FALSE
    /\ queue = <<>>
    /\ tasks = <<>>
    /\ cur = 0
    /\ results = NoResults
    /\ tracker = ProgressTracker(MaxCalls)
    /\ ret = NoReturn
    /\ opCalls = {}
    /\ libLog = <<>>
    /\ cbCalls = <<>>
    /\ cbRaises = <<>>
    /\ thr = InitThreads
    /\ done = NoDone

LockNeverHeld(tr) == TRUE

\* threading.Lock: whether acquire() may proceed
LockFree(tr) == tr.lock = 0

\* A thread calls update_progress(file_path, success)
CallUpdate(t, file_path, success) ==
    /\ thr[t].pc = "idle"
    /\ done.issued < MaxCalls
    /\ thr' = [thr EXCEPT ![t].pc = "u_lock",
                          ![t].file_path = file_path,
                          ![t].success = success]
    /\ done' = [done EXCEPT !.issued = @ + 1]
    /\ UNCHANGED <<batchVars, otherVars, tracker>>

\* A thread calls get_progress()
CallGet(t) ==
    /\ thr[t].pc = "idle"
    /\ done.issued < MaxCalls
    /\ thr' = [thr EXCEPT ![t].pc = "g_lock"]
    /\ done' = [done EXCEPT !.issued = @ + 1]
    /\ UNCHANGED <<batchVars, otherVars, tracker>>

\* Lines 34 and 46: with self.lock
Acquire(t) ==
    /\ thr[t].pc \in {"u_lock", "g_lock"}
    /\ LockFree(tracker)
    /\ tracker' = [tracker EXCEPT !.lock = t]
    /\ thr' = [thr EXCEPT ![t].pc = IF @ = "u_lock" THEN "u_load_p"
                                    ELSE "g_read"]
    /\ UNCHANGED <<batchVars, otherVars, done>>

\* Line 35, self.processed_files += 1: the load
LoadProcessed(t) ==
    /\ thr[t].pc = "u_load_p"
    /\ thr' = [thr EXCEPT ![t].local = tracker.processed_files,
                          ![t].pc = "u_store_p"]
    /\ UNCHANGED <<batchVars, otherVars, tracker, done>>

\* Lines 35-36: the store, then the test of success
StoreProcessed(t) ==
    /\ thr[t].pc = "u_store_p"
    /\ tracker' = [tracker EXCEPT !.processed_files = thr[t].local + 1]
    /\ thr' = [thr EXCEPT ![t].pc = IF thr[t].success THEN "u_current"
                                    ELSE "u_load_f"]
    /\ UNCHANGED <<batchVars, otherVars, done>>

\* Line 37, self.failed_files += 1: the load
LoadFailed(t) ==
    /\ thr[t].pc = "u_load_f"
    /\ thr' = [thr EXCEPT ![t].local = tracker.failed_files,
                          ![t].pc = "u_store_f"]
    /\ UNCHANGED <<batchVars, otherVars, tracker, done>>

\* Line 37: the store
StoreFailed(t) ==
    /\ thr[t].pc = "u_store_f"
    /\ tracker' = [tracker EXCEPT !.failed_files = thr[t].local + 1]
    /\ thr' = [thr EXCEPT ![t].pc = "u_current"]
    /\ UNCHANGED <<batchVars, otherVars, done>>

\* Line 38, then the end of the with block: the lock is released
SetCurrentAndRelease(t) ==
    /\ thr[t].pc = "u_current"
    /\ tracker' = [tracker EXCEPT !.current_file = Basename(thr[t].file_path),
                                  !.lock = 0]
    /\ thr' = [thr EXCEPT ![t].pc = "idle"]
    /\ done' = IF thr[t].success THEN [done EXCEPT !.ok = @ + 1]
               ELSE [done EXCEPT !.failed = @ + 1]
    /\ UNCHANGED <<batchVars, otherVars>>

\* Lines 47-68: the snapshot is computed and the lock released
ReadAndRelease(t) ==
    /\ thr[t].pc = "g_read"
    /\ thr' = [thr EXCEPT ![t].pc = "idle",
                          ![t].snap = [processed |-> get_progress(tracker).processed,
                                       failed |-> get_progress(tracker).failed]]
    /\ tracker' = [tracker EXCEPT !.lock = 0]
    /\ UNCHANGED <<batchVars, otherVars, done>>

NextTracker ==
    \E t \in 1..NThreads :
        \/ \E f \in TrackerPaths, s \in BOOLEAN : CallUpdate(t, f, s)
        \/ CallGet(t)
        \/ Acquire(t)
        \/ LoadProcessed(t)
        \/ StoreProcessed(t)
        \/ LoadFailed(t)
        \/ StoreFailed(t)
        \/ SetCurrentAndRelease(t)
        \/ ReadAndRelease(t)

SpecTracker == InitTracker /\ [][NextTracker]_vars

(***************************************************************************)
(* Discovery alone: line 111 of process_directory on any tree, pattern and *)
(* mode.                                                                   *)
(***************************************************************************)
\* Everything of a batch run that has not begun
NoBatchRun ==
    /\ operation = "compress"
    /\ params = NoParams
    /\ hasCallback = FALSE
    /\ max_workers = 1
    /\ disk = NoDisk
    /\ files = <<>>
    /\ outDirMade = FALSE
    /\ queue = <<>>
    /\ tasks = <<>>
    /\ cur = 0
    /\ results = NoResults
    /\ ret = NoReturn
    /\ opCalls = {}
    /\ libLog = <<>>
    /\ cbCalls = <<>>
    /\ cbRaises = <<>>

InitFind ==
    /\ dirState \in DirStates
    /\ tree \in IF dirState = "missing" THEN {{}} ELSE SUBSET FindUniverse
    /\ pattern \in Patterns
    /\ recursive \in BOOLEAN
    /\ pc = "find"
    /\ NoBatchRun
    /\ tracker = NoTracker
    /\ thr = InitThreads
    /\ done = NoDone
    /\ now = 0
    /\ snap = NoSnap
    /\ estLog = <<>>
    /\ NoComponentRun
    /\ cli = NoCli

\* Line 111: files = self._find_files(input_dir, file_pattern, recursive)
FindFiles ==
    /\ pc = "find"
    /\ IF _find_files_raises(dirState, recursive)
       THEN /\ pc' = "find raised"
            /\ UNCHANGED files
       ELSE /\ files' = _find_files(dirState, tree, pattern, recursive)
            /\ pc' = "found"
    /\ UNCHANGED <<argVars, disk, outDirMade, queue, tasks, cur, results,
                   ret, opCalls, libLog, cbCalls, cbRaises, tracker,
                   threadVars, otherVars>>

NextFind == FindFiles

SpecFind == InitFind /\ [][NextFind]_vars

(***************************************************************************)
(* One ProgressTracker over time, driven as the loop of process_directory  *)
(* drives it (lines 150-178) while the clock advances, and read at any     *)
(* moment by get_progress.                                                 *)
(***************************************************************************)
InitClock ==
    /\ tree = {}
    /\ dirState = "ok"
    /\ pattern = DefaultPattern
    /\ recursive = FALSE
    /\ NoBatchRun
    /\ pc = "clock"
    /\ now = 0
    /\ \E total \in 0..MaxTotal : tracker = ProgressTracker(total)
    /\ thr = InitThreads
    /\ done = NoDone
    /\ snap = NoSnap
    /\ estLog = <<>>
    /\ NoComponentRun
    /\ cli = NoCli

\* time.time() advances
Tick ==
    /\ pc \in {"clock", "clock callback"}
    /\ now < MaxTime
    /\ now' = now + 1
    /\ UNCHANGED <<batchVars, tracker, threadVars, snap, estLog, cli, compVars>>

\* Lines 162-165: a file completed; update_progress, then get_progress for
\* the callback
Completed(file_path, success) ==
    /\ pc = "clock"
    /\ cur < tracker.total_files
    /\ cur' = cur + 1
    /\ tracker' = update_progress(tracker, file_path, success)
    /\ snap' = CallGetProgress(tracker')
    /\ estLog' = Append(estLog, EstimatedRemaining(tracker'))
    /\ pc' = "clock callback"
    /\ UNCHANGED <<argVars, disk, files, outDirMade, queue, tasks, results,
                   ret, opCalls, libLog, cbCalls, cbRaises, threadVars, now,
                   cli, compVars>>

\* Lines 164-165: the callback returns
ClockCallbackReturns ==
    /\ pc = "clock callback"
    /\ pc' = "clock"
    /\ UNCHANGED <<argVars, disk, files, outDirMade, queue, tasks, cur,
                   results, ret, opCalls, libLog, cbCalls, cbRaises, tracker,
                   threadVars, otherVars>>

\* Lines 167-178: the callback raises; the handler calls update_progress
\* for the same file and get_progress for the callback
ClockCallbackRaises(file_path) ==
    /\ pc = "clock callback"
    /\ tracker' = update_progress(tracker, file_path, FALSE)
    /\ snap' = CallGetProgress(tracker')
    /\ pc' = "clock"
    /\ UNCHANGED <<argVars, disk, files, outDirMade, queue, tasks, cur,
                   results, ret, opCalls, libLog, cbCalls, cbRaises,
                   threadVars, now, estLog, cli, compVars>>

\* get_progress called by any holder of the tracker
Poll ==
    /\ pc \in {"clock", "clock callback"}
    /\ snap' = CallGetProgress(tracker)
    /\ UNCHANGED <<batchVars, tracker, threadVars, now, estLog, cli, compVars>>

NextClock ==
    \/ Tick
    \/ \E f \in TrackerPaths, ok \in BOOLEAN : Completed(f, ok)
    \/ ClockCallbackReturns
    \/ \E f \in TrackerPaths : ClockCallbackRaises(f)
    \/ Poll

SpecClock == InitClock /\ [][NextClock]_vars

(***************************************************************************)
(* The command line of src/batch_processor.py: main().                     *)
(***************************************************************************)
\* args.metadata: None when --metadata is not given, else the string given
NoMetadata == [given |-> FALSE, text |-> ""]
Metadata(s) == [given |-> TRUE, text |-> s]

\* --metadata strings of the modelled runs: a JSON object, an unfinished
\* object, the empty string
JsonTexts == {"{\"k\": \"v\"}"}
MetadataArgs == {NoMetadata} \cup {Metadata(s) : s \in JsonTexts \cup {"{", ""}}

\* json.loads(s) raises JSONDecodeError unless s is a JSON text
JsonLoadsRaises(s) == s \notin JsonTexts

\* Line 222, `if args.metadata:` -- None and the empty string are false
MetadataTruthy(m) == m.given /\ m.text # ""

\* str.upper() on one character, and str.upper()
UpperChar(c) == IF c >= 97 /\ c <= 122 THEN c - 32 ELSE c
Upper(s) == [i \in 1..Len(s) |-> UpperChar(s[i])]

\* config.SUPPORTED_EXTENSIONS
SUPPORTED_EXTENSIONS == <<PdfSuffix>>

\* The names the entries of the command line's input directory are drawn
\* from: a.pdf, b.PDF, c.Pdf, d.txt
CliNames ==
    { <<97, 46, 112, 100, 102>>, <<98, 46, 80, 68, 70>>,
      <<99, 46, 80, 100, 102>>, <<100, 46, 116, 120, 116>> }

\* Path.glob("*" + ext) on a directory holding names: pathlib compares
\* case-sensitively, except in its Windows flavour (ci)
Glob(names, ext, ci) ==
    {n \in names : IF ci THEN EndsWith(Lower(n), Lower(ext))
                          ELSE EndsWith(n, ext)}

\* list.append keeping a sorted list sorted; sorted(list)
RECURSIVE InsertSorted(_, _)
InsertSorted(x, l) ==
    IF l = <<>> THEN <<x>>
    ELSE IF StrLess(Head(l), x) THEN <<Head(l)>> \o InsertSorted(x, Tail(l))
    ELSE <<x>> \o l
RECURSIVE SortList(_)
SortList(l) == IF l = <<>> THEN <<>> ELSE InsertSorted(Head(l), SortList(Tail(l)))

\* The list the loop of find_pdf_files (lines 47-50) builds: for each
\* extension the matches of "*<ext>", then those of "*<EXT>"
RECURSIVE GlobAll(_, _, _)
GlobAll(exts, names, ci) ==
    IF exts = <<>> THEN <<>>
    ELSE Sorted(Glob(names, Head(exts), ci))
         \o Sorted(Glob(names, Upper(Head(exts)), ci))
         \o GlobAll(Tail(exts), names, ci)

\* BatchPDFProcessor.find_pdf_files
find_pdf_files(names, ci) == SortList(GlobAll(SUPPORTED_EXTENSIONS, names, ci))

\* PDFHashChanger.generate_random_filename: the names it may return
RandomNames == {"r1.pdf", "r2.pdf"}

\* The output directory before the run: empty, or holding one file
NoOutDir == <<>>
OutDirs == {NoOutDir, "r1.pdf" :> [source |-> <<>>]}

InitCli ==
    /\ tree = {}
    /\ dirState = "ok"
    /\ pattern = DefaultPattern
    /\ recursive = FALSE
    /\ NoBatchRun
    /\ pc = "cli"
    /\ tracker = NoTracker
    /\ thr = InitThreads
    /\ done = NoDone
    /\ now = 0
    /\ snap = NoSnap
    /\ estLog = <<>>
    /\ NoComponentRun
    /\ \E m \in MetadataArgs, e \in BOOLEAN, ci \in BOOLEAN,
          names \in SUBSET CliNames, o \in OutDirs :
          /\ Cardinality(names) <= MaxCliFiles
          /\ ~e => (names = {} /\ ~ci /\ o = NoOutDir)
          /\ cli = [pc |-> "args", metadata |-> m, input_exists |-> e,
                    names |-> names, fs_ci |-> ci, pdf_files |-> <<>>,
                    out_dir_made |-> FALSE, out_dir |-> o,
                    old_files |-> DOMAIN o,
                    results |-> <<>>, processed |-> 0,
                    failed |-> 0, touched |-> 0, report_written |-> FALSE,
                    raised |-> FALSE, exit |-> -1]

cliFrame == <<batchVars, tracker, threadVars, now, snap, estLog, compVars>>

\* Lines 220-229: the metadata is parsed if it is given; sys.exit(1) when
\* json.loads raises
ParseMetadata ==
    /\ cli.pc = "args"
    /\ cli' = IF MetadataTruthy(cli.metadata) /\ JsonLoadsRaises(cli.metadata.text)
              THEN [cli EXCEPT !.pc = "exited", !.exit = 1]
              ELSE [cli EXCEPT !.pc = "parsed"]
    /\ UNCHANGED cliFrame

\* Lines 250-252: except Exception: logger.error; sys.exit(1)
TopLevelHandler(c) == [c EXCEPT !.pc = "exited", !.raised = TRUE, !.exit = 1]

\* Line 233 and BatchPDFProcessor.__init__ (lines 23-38): ValueError for a
\* missing input directory, else the output directory is made
Construct ==
    /\ cli.pc = "parsed"
    /\ cli' = IF cli.input_exists
              THEN [cli EXCEPT !.pc = "constructed", !.out_dir_made = TRUE]
              ELSE TopLevelHandler(cli)
    /\ UNCHANGED cliFrame

\* process_batch, lines 100-118: the files are found and one task per
\* element of the list is submitted
FindPdfFiles ==
    /\ cli.pc = "constructed"
    /\ cli' = [cli EXCEPT !.pc = "batch",
                          !.pdf_files = find_pdf_files(cli.names, cli.fs_ci)]
    /\ UNCHANGED cliFrame

\* The result process_single_file (lines 54-86) returns for a file that
\* process_pdf failed on
FailedResult(pdf_path) ==
    [input_file |-> pdf_path, success |-> FALSE, output_file |-> ""]

\* process_single_file and PDFHashChanger.process_pdf for the next task:
\* the file is read and, unless a step fails, written under the name
\* generate_random_filename returned, with open(output_path, "wb")
ProcessFile(ok, filename) ==
    /\ cli.pc = "batch"
    /\ cli.processed < Len(cli.pdf_files)
    /\ LET pdf_path == cli.pdf_files[cli.processed + 1]
       IN  cli' = [cli EXCEPT
                      !.processed = @ + 1,
                      !.touched = @ + 1,
                      !.failed = IF ok THEN @ ELSE @ + 1,
                      !.out_dir = IF ok
                                  THEN (filename :> [source |-> pdf_path]) @@ @
                                  ELSE @,
                      !.results =
                          Append(@, IF ok
                                    THEN [input_file |-> pdf_path,
                                          success |-> TRUE,
                                          output_file |-> filename]
                                    ELSE FailedResult(pdf_path))]
    /\ UNCHANGED cliFrame

\* Lines 240-248: the report is made and written to processing_report.txt;
\* open or write may raise
WriteReport(io_ok) ==
    /\ cli.pc = "batch"
    /\ cli.processed = Len(cli.pdf_files)
    /\ cli' = IF io_ok
              THEN [cli EXCEPT !.pc = "end", !.report_written = TRUE]
              ELSE TopLevelHandler(cli)
    /\ UNCHANGED cliFrame

\* main() returns: the interpreter exits with code 0
FallOffEnd ==
    /\ cli.pc = "end"
    /\ cli' = [cli EXCEPT !.pc = "exited", !.exit = 0]
    /\ UNCHANGED cliFrame

NextCli ==
    \/ ParseMetadata
    \/ Construct
    \/ FindPdfFiles
    \/ \E ok \in BOOLEAN, filename \in RandomNames : ProcessFile(ok, filename)
    \/ \E io_ok \in BOOLEAN : WriteReport(io_ok)
    \/ FallOffEnd

SpecCli == InitCli /\ [][NextCli]_vars

(***************************************************************************)
(* One call of an operation method on a params mapping: what the method    *)
(* reads from the mapping, what it hands to its library call and what      *)
(* _process_single_file makes of the call.                                 *)
(***************************************************************************)
\* Keys a caller may put in operation_params: those some operation reads
\* and one that none reads
ParamKeys ==
    <<"mode", "text", "pages", "password", "encryption_level",
      "pages_per_file", "file_type", "custom_title", "verbose">>

\* Values a caller gives a key
ParamValues(key) ==
    CASE key = "encryption_level" -> {Str("HIGH"), EncryptionLevel("LOW")}
      [] key = "pages_per_file" -> {2}
      [] key = "file_type" -> {"PNG", "TXT"}
      [] key = "mode" -> {"high"}
      [] key = "pages" -> {"first"}
      [] OTHER -> {"s"}

\* The params mappings of at most MaxKeys keys
RECURSIVE MappingsOver(_)
MappingsOver(keys) ==
    IF keys = <<>> THEN {NoParams}
    ELSE LET rest == MappingsOver(Tail(keys))
         IN  rest \cup
             {(Head(keys) :> v) @@ m :
                 m \in {r \in rest : Cardinality(DOMAIN r) < MaxKeys},
                 v \in ParamValues(Head(keys))}

Mappings == MappingsOver(ParamKeys)

\* No batch, tracker, clock or command line: a component is called directly
ComponentAlone ==
    /\ tree = {}
    /\ dirState = "ok"
    /\ pattern = DefaultPattern
    /\ recursive = FALSE
    /\ NoBatchRun
    /\ pc = "component"
    /\ tracker = NoTracker
    /\ thr = InitThreads
    /\ done = NoDone
    /\ now = 0
    /\ snap = NoSnap
    /\ estLog = <<>>
    /\ cli = NoCli

InitParams ==
    /\ ComponentAlone
    /\ split = NoSplit
    /\ byp = NoByp
    /\ pw = NoPw
    /\ \E op \in SupportedOperations, m \in Mappings :
          opcall = [pc |-> "ready", operation |-> op, given |-> m,
                    params |-> m]

\* self.supported_operations[operation](input_file, output_file, params)
\* inside _process_single_file: the method reads params with params.get and
\* assigns to no key of it
CallMethod(lib) ==
    /\ opcall.pc = "ready"
    /\ lib \in LibOutcomes(opcall.operation, opcall.params)
    /\ opcall' = [pc |-> "called", operation |-> opcall.operation,
                  given |-> opcall.given, params |-> opcall.params,
                  args |-> LibArgs(opcall.operation, opcall.params),
                  lib |-> lib,
                  result |-> _process_single_file(
                                 Join(InputDir, <<97, 46, 112, 100, 102>>),
                                 OutputDir, opcall.operation, opcall.params,
                                 lib)]
    /\ UNCHANGED <<batchVars, tracker, threadVars, now, snap, estLog, cli,
                   split, byp, pw>>

NextParams == \E lib \in UNION {LibOutcomes(op, NoParams) \cup
                                     LibOutcomes(op, [file_type |-> "TXT"]) :
                                 op \in SupportedOperations} : CallMethod(lib)

SpecParams == InitParams /\ [][NextParams]_vars

(***************************************************************************)
(* PDFSplitter.split_by_pages_per_file (pdf_splitter.py, lines 89-153),    *)
(* called by _split_operation on a PDF "in/a.pdf" of total_pages pages.    *)
(* Pages are numbered from 0; a written part is the list of the page       *)
(* numbers added to its writer.                                            *)
(***************************************************************************)
\* a // b on Python ints, b # 0: the floor of the quotient
FloorDiv(a, b) == IF b > 0 THEN a \div b ELSE (0 - a) \div (0 - b)

Min(a, b) == IF a <= b THEN a ELSE b

\* list(range(lo, hi))
PyRange(lo, hi) == IF lo < hi THEN [i \in 1..(hi - lo) |-> lo + i - 1] ELSE <<>>

\* str(n) for n >= 0, as character codes
RECURSIVE Digits(_)
Digits(n) == IF n < 10 THEN <<48 + n>> ELSE Digits(n \div 10) \o <<48 + (n % 10)>>

\* f"{n:03d}" for n >= 0: zeros on the left up to three characters
Format03d(n) ==
    LET d == Digits(n)
    IN  IF Len(d) >= 3 THEN d ELSE [i \in 1..(3 - Len(d)) |-> 48] \o d

PartInfix == <<95, 112, 97, 114, 116, 95>>      \* "_part_"

\* Line 130: f"{base_name}_part_{file_num + 1:03d}.pdf"
OutputName(base_name, file_num) ==
    base_name \o PartInfix \o Format03d(file_num + 1) \o PdfSuffix

SplitInput == Join(InputDir, <<97, 46, 112, 100, 102>>)      \* "in/a.pdf"

\* Line 120
NumFiles(total_pages, pages_per_file) ==
    FloorDiv(total_pages + pages_per_file - 1, pages_per_file)

\* Line 123
StartPage(file_num, pages_per_file) == file_num * pages_per_file

EndPageUnclamped(start_page, pages_per_file, total_pages) ==
    start_page + pages_per_file - 1

\* Line 124
EndPage(start_page, pages_per_file, total_pages) ==
    Min(start_page + pages_per_file - 1, total_pages - 1)

NoFilesWritten == [n \in {} |-> <<>>]

InitSplit ==
    /\ ComponentAlone
    /\ opcall = NoOpCall
    /\ byp = NoByp
    /\ pw = NoPw
    /\ \E t \in 0..MaxPages, k \in (0 - MaxPerFile)..MaxPerFile :
          split = [pc |-> "start", total_pages |-> t, pages_per_file |-> k,
                   dir_made |-> FALSE, num_files |-> 0, file_num |-> 0,
                   output_files |-> <<>>, written |-> NoFilesWritten,
                   caught |-> FALSE, ret |-> <<>>, success |-> FALSE]

splitFrame == <<batchVars, tracker, threadVars, now, snap, estLog, cli,
                opcall, byp, pw>>

\* Lines 151-153 and _split_operation, lines 330-331: except Exception
\* returns []; the operation returns len(result) > 0
SplitReturn(s, result, caught) ==
    [s EXCEPT !.pc = "returned", !.ret = result, !.caught = caught,
              !.success =
                  _split_operation(
                      Returns(IF result = <<>> THEN "[]" ELSE "[parts]"),
                      [pages_per_file |-> s.pages_per_file]).value = "True"]

\* Lines 107-120: the output directory is made, the page count read and
\* the number of parts computed; the division raises for pages_per_file 0
SplitBegin ==
    /\ split.pc = "start"
    /\ split' =
          IF split.pages_per_file = 0
          THEN SplitReturn([split EXCEPT !.dir_made = TRUE], <<>>, TRUE)
          ELSE [split EXCEPT !.pc = "loop", !.dir_made = TRUE,
                             !.num_files = NumFiles(split.total_pages,
                                                    split.pages_per_file)]
    /\ UNCHANGED splitFrame

\* Lines 122-147, one pass of the loop: the part's pages are collected,
\* the file is opened for writing and written.  open creates the file; a
\* write that raises leaves it without pages and ends the call in the
\* except clause.
WritePart(io_ok) ==
    /\ split.pc = "loop"
    /\ split.file_num < split.num_files
    /\ LET start_page == StartPage(split.file_num, split.pages_per_file)
           end_page == EndPage(start_page, split.pages_per_file,
                               split.total_pages)
           output_path == Join(OutputDir,
                               OutputName(Stem(SplitInput), split.file_num))
           pages == PyRange(start_page, end_page + 1)
       IN  split' =
             IF io_ok
             THEN [split EXCEPT
                      !.written = (output_path :> pages) @@ @,
                      !.output_files = Append(@, output_path),
                      !.file_num = @ + 1]
             ELSE SplitReturn(
                      [split EXCEPT !.written = (output_path :> <<>>) @@ @],
                      <<>>, TRUE)
    /\ UNCHANGED splitFrame

\* Line 149: return output_files once range(num_files) is used up
SplitEnd ==
    /\ split.pc = "loop"
    /\ split.file_num >= split.num_files
    /\ split' = SplitReturn(split, split.output_files, FALSE)
    /\ UNCHANGED splitFrame

NextSplit ==
    \/ SplitBegin
    \/ \E io_ok \in BOOLEAN : WritePart(io_ok)
    \/ SplitEnd

SpecSplit == InitSplit /\ [][NextSplit]_vars

(***************************************************************************)
(* _bypass_scribd_operation run by the pool's threads for the files of one *)
(* batch: every task makes its intermediate file in the batch's output     *)
(* directory (ScribdBypass.create_scribd_file, PDFHashChanger.save_pdf)    *)
(* and moves it to its own <stem>_processed.pdf.  A file name is a tuple   *)
(* <<kind, text, number>>; a file's content is the task whose input it     *)
(* was made from.                                                          *)
(***************************************************************************)
\* The results of random.choices(string.ascii_lowercase, k=8)
RandomStems == {"r1", "r2"}

\* scribd_bypass.py lines 103-107: the name of the intermediate file at
\* clock second sec
OutputFilename(custom_title, random_name, sec) ==
    IF custom_title # "None"
    THEN <<"title", custom_title, sec>>
    ELSE <<"scribd", random_name, sec>>

\* <stem>_processed.pdf of task i, whose input has its own stem
ProcessedName(i) == <<"processed", "stem", i>>

NoDir == [n \in {} |-> 0]

InitBypass ==
    /\ ComponentAlone
    /\ opcall = NoOpCall
    /\ split = NoSplit
    /\ pw = NoPw
    /\ \E title \in {"None", "t"} :
          byp = [pc |-> "run", custom_title |-> title, sec |-> 0,
                 dir |-> NoDir,
                 task |-> [i \in 1..NBypTasks |->
                              [pc |-> "name", result |-> <<>>,
                               success |-> FALSE]]]

bypFrame == <<batchVars, tracker, threadVars, now, snap, estLog, cli,
              opcall, split, pw>>

\* time.time() moves on to the next second
BypTick ==
    /\ byp.pc = "run"
    /\ byp.sec < MaxSec
    /\ byp' = [byp EXCEPT !.sec = @ + 1]
    /\ UNCHANGED bypFrame

\* create_scribd_file, lines 103-107: the task chooses its file name
ChooseName(i, random_name) ==
    /\ byp.pc = "run"
    /\ byp.task[i].pc = "name"
    /\ byp' = [byp EXCEPT
                  !.task[i].pc = "save",
                  !.task[i].result =
                      OutputFilename(byp.custom_title, random_name, byp.sec)]
    /\ UNCHANGED bypFrame

\* save_pdf, lines 119-121: open(output_path, "wb") and the write; a file
\* of that name is replaced
SavePdf(i) ==
    /\ byp.pc = "run"
    /\ byp.task[i].pc = "save"
    /\ byp' = [byp EXCEPT
                  !.task[i].pc = "move",
                  !.dir = (byp.task[i].result :> i) @@ @]
    /\ UNCHANGED bypFrame

\* A directory without the entry n
Removed(d, n) == [m \in (DOMAIN d) \ {n} |-> d[m]]

\* _bypass_scribd_operation, lines 394-402: shutil.move(result,
\* output_file) and return True; the move raises when no file has the
\* name result, and the except clause returns False
MoveResult(i) ==
    /\ byp.pc = "run"
    /\ byp.task[i].pc = "move"
    /\ LET result == byp.task[i].result
       IN  byp' =
             IF result \in DOMAIN byp.dir
             THEN [byp EXCEPT
                      !.task[i].pc = "done",
                      !.task[i].success = TRUE,
                      !.dir = (ProcessedName(i) :> byp.dir[result])
                              @@ Removed(byp.dir, result)]
             ELSE [byp EXCEPT !.task[i].pc = "done",
                              !.task[i].success = FALSE]
    /\ UNCHANGED bypFrame

NextBypass ==
    \/ BypTick
    \/ \E i \in 1..NBypTasks, r \in RandomStems : ChooseName(i, r)
    \/ \E i \in 1..NBypTasks : SavePdf(i)
    \/ \E i \in 1..NBypTasks : MoveResult(i)

SpecBypass == InitBypass /\ [][NextBypass]_vars

(***************************************************************************)
(* PDFEncryption.change_password (pdf_encryption.py, lines 224-269) with   *)
(* the decrypt_pdf and encrypt_pdf calls it makes.  The two files it       *)
(* writes are the temporary file input_file + ".temp" and output_file.     *)
(***************************************************************************)
\* A file that does not exist, and the content of one that does: what was
\* written and the passwords it was encrypted with
Absent == [kind |-> "absent", user |-> "", owner |-> ""]
FileOf(kind) == [kind |-> kind, user |-> "", owner |-> ""]
Encrypted(user, owner) == [kind |-> "encrypted", user |-> user, owner |-> owner]

\* Lines 251-252 and encrypt_pdf lines 80-81: an empty owner password is
\* replaced by the user password
OwnerPassword(new_user_password, new_owner_password) ==
    IF new_owner_password = "" THEN new_user_password ELSE new_owner_password

InitPw ==
    /\ ComponentAlone
    /\ opcall = NoOpCall
    /\ split = NoSplit
    /\ byp = NoByp
    /\ \E enc \in BOOLEAN, ok \in BOOLEAN, u \in {"", "u"}, o \in {"", "o"},
          out \in {Absent, FileOf("old")} :
          pw = [pc |-> "start", is_encrypted |-> enc, password_ok |-> ok,
                new_user_password |-> u, new_owner_password |-> o,
                temp_file |-> Absent, output_file |-> out,
                returned |-> "nothing"]

pwFrame == <<batchVars, tracker, threadVars, now, snap, estLog, cli,
             opcall, split, byp>>

\* Lines 247-248: decrypt_pdf returned False and change_password returns
\* False at once
ReturnFalseAtOnce(p) == [p EXCEPT !.pc = "returned", !.returned = "False"]

\* decrypt_pdf lines 126-148: the input is read; a PDF that is not
\* encrypted, or that the password does not open (getNumPages raises),
\* makes decrypt_pdf return False before it opens its output
DecryptRead ==
    /\ pw.pc = "start"
    /\ pw' = IF pw.is_encrypted /\ pw.password_ok
             THEN [pw EXCEPT !.pc = "decrypt_write"]
             ELSE ReturnFalseAtOnce(pw)
    /\ UNCHANGED pwFrame

\* decrypt_pdf lines 150-158: open(output_file, 'wb') creates the
\* temporary file and the writer writes the decrypted pages; a write that
\* raises leaves what was written so far and decrypt_pdf returns False
DecryptWrite(io_ok) ==
    /\ pw.pc = "decrypt_write"
    /\ pw' = IF io_ok
             THEN [pw EXCEPT !.pc = "encrypt",
                             !.temp_file = FileOf("decrypted")]
             ELSE ReturnFalseAtOnce(
                      [pw EXCEPT !.temp_file = FileOf("decrypted in part")])
    /\ UNCHANGED pwFrame

\* What the reads and writes of encrypt_pdf may do
EncryptOutcomes == {"ok", "read raises", "write raises"}

\* Lines 250-259 and encrypt_pdf: the temporary file is read and written
\* to output_file encrypted at EncryptionLevel.MEDIUM.  A read that raises
\* leaves output_file as it was, a write that raises leaves what was
\* written so far; encrypt_pdf returns False for both
EncryptTemp(io) ==
    /\ pw.pc = "encrypt"
    /\ pw' = [pw EXCEPT
                 !.pc = "cleanup",
                 !.returned = IF io = "ok" THEN "True" ELSE "False",
                 !.output_file =
                     CASE io = "ok" ->
                            Encrypted(pw.new_user_password,
                                      OwnerPassword(pw.new_user_password,
                                                    pw.new_owner_password))
                       [] io = "read raises" -> @
                       [] io = "write raises" -> FileOf("encrypted in part")]
    /\ UNCHANGED pwFrame

\* Lines 261-265: the temporary file is removed and success returned
CleanUp ==
    /\ pw.pc = "cleanup"
    /\ pw' = [pw EXCEPT !.pc = "returned", !.temp_file = Absent]
    /\ UNCHANGED pwFrame

NextPw ==
    \/ DecryptRead
    \/ \E io_ok \in BOOLEAN : DecryptWrite(io_ok)
    \/ \E io \in EncryptOutcomes : EncryptTemp(io)
    \/ CleanUp

SpecPw == InitPw /\ [][NextPw]_vars

(***************************************************************************)
(* Properties.                                                             *)
(***************************************************************************)
Ended == pc \in {"returned", "raised"}

NoCallbackRaised == \A i \in DOMAIN cbRaises : cbRaises[i] = 0

TaskOver(i) == tasks[i].state \in {"done", "yielded"}

\* The library call of file i raised or returned a false value
OperationFailed(i) == libLog[i].raised \/ ~Truthy(libLog[i].value)

\* A message is a sequence of fragments; it is empty if all of them are
NonEmptyMsg(m) == \E k \in DOMAIN m : m[k] # ""

MsgContains(m, name) == \E k \in DOMAIN m : m[k] = name

\* C1: failure isolation. Whatever subset of the files has a failing
\* operation, once the call is over every discovered file's task has run;
\* the call has returned a result record unless the progress callback
\* raised; and in the returned record every failing file has a record in
\* failed_files with success false and a non-empty error, every other file
\* a success record in processed_files.
C1_FailureIsolation ==
    (Ended /\ files # <<>>) =>
        /\ AllTasksOver
        /\ NoCallbackRaised => (pc = "returned" /\ ret.kind = "result")
        /\ pc = "returned" =>
              \A i \in DOMAIN files :
                 IF OperationFailed(i)
                 THEN \E k \in DOMAIN ret.value.failed_files :
                         LET r == ret.value.failed_files[k]
                         IN  /\ r.file_path = files[i]
                             /\ ~r.success
                             /\ NonEmptyMsg(r.error)
                 ELSE \E k \in DOMAIN ret.value.processed_files :
                         LET r == ret.value.processed_files[k]
                         IN  r.file_path = files[i] /\ r.success

\* C1 witness: a returned two-file batch, the first file's library call
\* raised and the second file succeeded.
C1_Witness ==
    /\ pc = "returned"
    /\ Len(files) = 2
    /\ libLog[1].raised
    /\ ~OperationFailed(2)
    /\ ret.value.failure_count = 1
    /\ ret.value.success_count = 1

\* C2 (as claimed): completion accounting. After process_directory has
\* returned for a batch of N discovered files, the tracker's processed
\* count is N and success_count + failure_count = N = total_files,
\* whatever the operations and the callback did.
C2_CompletionAccounting ==
    (pc = "returned" /\ files # <<>>) =>
        /\ tracker.processed_files = Len(files)
        /\ ret.value.success_count + ret.value.failure_count = Len(files)
        /\ ret.value.total_files = Len(files)

\* C3 (as claimed): in every state of a run the tracker's processed_files
\* does not exceed total_files and failed_files does not exceed
\* processed_files.
C3_TrackerBounds ==
    /\ tracker.processed_files <= tracker.total_files
    /\ tracker.failed_files <= tracker.processed_files

\* The monotone half of C3: no step lowers processed_files of a tracker.
C3_ProcessedMonotone ==
    [][tracker.exists => tracker'.processed_files >= tracker.processed_files]_vars

\* C4 (as claimed): once the callback has raised for a file, its exception
\* is on its way to the caller and the callback was invoked once for that
\* file.
C4_CallbackExceptionPropagates ==
    \A i \in DOMAIN cbRaises :
        cbRaises[i] > 0 => (cbCalls[i] = 1 /\ pc \in {"unwind", "raised"})

InUpdate(t) ==
    thr[t].pc \in {"u_load_p", "u_store_p", "u_load_f", "u_store_f", "u_current"}

\* C5: no increment of update_progress is lost. Whenever no thread is
\* inside update_progress, processed_files is the number of completed
\* update_progress calls and failed_files the number of those with
\* success false, in any interleaving of the threads' calls, get_progress
\* calls included.
C5_NoLostIncrement ==
    (pc = "threads" /\ \A t \in DOMAIN thr : ~InUpdate(t)) =>
        /\ tracker.processed_files = done.ok + done.failed
        /\ tracker.failed_files = done.failed

\* C5 witness: all calls are over, among them a successful update, a
\* failed one and a get_progress.
C5_Witness ==
    /\ pc = "threads"
    /\ \A t \in DOMAIN thr : thr[t].pc = "idle"
    /\ done.issued = MaxCalls
    /\ done.ok >= 1
    /\ done.failed >= 1
    /\ done.ok + done.failed < done.issued
    /\ tracker.processed_files = done.ok + done.failed

\* C6 (as claimed): output independence. No two file tasks of a batch are
\* given the same output path.
C6_DistinctOutputPaths ==
    \A i, j \in DOMAIN tasks :
        (i # j /\ tasks[i].state # "queued" /\ tasks[j].state # "queued")
            => tasks[i].output_file # tasks[j].output_file

\* C7: unsupported operation. For an operation name the registry lacks no
\* registry method is ever invoked, and a call whose callback did not raise
\* returns a record with failure_count = N, success_count = 0 and N
\* failure records, each error holding the given operation name.
C7_UnsupportedOperation ==
    operation \notin {"compress", "watermark", "encrypt", "split",
                      "clean_metadata", "convert", "bypass_scribd"} =>
        /\ opCalls = {}
        /\ (Ended /\ NoCallbackRaised) => pc = "returned"
        /\ (pc = "returned" /\ files # <<>> /\ NoCallbackRaised) =>
              /\ ret.value.failure_count = Len(files)
              /\ ret.value.success_count = 0
              /\ ~ret.value.success
              /\ ret.value.processed_files = <<>>
              /\ Len(ret.value.failed_files) = Len(files)
              /\ \A k \in DOMAIN ret.value.failed_files :
                    /\ ~ret.value.failed_files[k].success
                    /\ MsgContains(ret.value.failed_files[k].error, operation)

\* C7 witness: a returned two-file batch under an unregistered name.
C7_Witness ==
    /\ pc = "returned"
    /\ operation = "bypass_metadata"
    /\ Len(files) = 2
    /\ hasCallback
    /\ NoCallbackRaised
    /\ ret.value.failure_count = 2

IsUnsupportedFailure(r) ==
    ~r.success /\ MsgContains(r.error, "Unsupported operation: ")

C8_Method ==
    [compress |-> "_compress_operation",
     watermark |-> "_watermark_operation",
     encrypt |-> "_encrypt_operation",
     split |-> "_split_operation",
     clean_metadata |-> "_clean_metadata_operation",
     convert |-> "_convert_operation",
     bypass_scribd |-> "_bypass_scribd_operation",
     bypass_metadata |-> "_bypass_scribd_operation"]

C8_Dispatched(names) ==
    operation \in names =>
        \A i \in DOMAIN tasks :
            TaskOver(i) =>
                /\ <<C8_Method[operation], files[i]>> \in opCalls
                /\ ~IsUnsupportedFailure(tasks[i].result)

\* C8 (as claimed): each of the seven names of the specification's
\* enumeration, bypass_metadata among them, is dispatched to its operation
\* and never yields an "Unsupported operation" failure.
C8_SpecEnumerationRegistered ==
    C8_Dispatched({"compress", "watermark", "encrypt", "split",
                   "clean_metadata", "convert", "bypass_metadata"})

\* C8 (amended): the seventh registered name is bypass_scribd. Each of
\* compress, watermark, encrypt, split, clean_metadata, convert and
\* bypass_scribd is dispatched to its operation method for every file and
\* never yields an "Unsupported operation" failure.
C8_RegisteredNamesDispatched ==
    C8_Dispatched({"compress", "watermark", "encrypt", "split",
                   "clean_metadata", "convert", "bypass_scribd"})

\* C8 witness: a bypass_scribd batch whose two files were both dispatched.
C8_Witness ==
    /\ operation = "bypass_scribd"
    /\ Len(files) = 2
    /\ \A i \in DOMAIN tasks : TaskOver(i)
    /\ Cardinality(opCalls) = 2

\* C9 (as claimed): when the library call of a registered operation raised
\* e for a file, the file's failure record carries error = str(e).
C9_ErrorIsExceptionMessage ==
    \A i \in DOMAIN tasks :
        (TaskOver(i) /\ libLog[i].raised) =>
            /\ ~tasks[i].result.success
            /\ tasks[i].result.error = <<libLog[i].msg>>

\* C10: empty batch. When discovery finds no file the call returns the
\* "no files found" record with success false and counts 0 without an
\* exception, and nothing else happens: the output directory is not
\* created, no task is submitted, no operation is invoked, no tracker is
\* made and the callback is not called.
C10_EmptyBatch ==
    _find_files(dirState, tree, pattern, recursive) = <<>> =>
        /\ pc \in {"start", "returned"}
        /\ ~outDirMade
        /\ tasks = <<>> /\ queue = <<>>
        /\ opCalls = {}
        /\ cbCalls = <<>>
        /\ tracker = NoTracker
        /\ files = <<>>
        /\ pc = "returned" =>
              /\ ret.kind = "result"
              /\ ret.value.success = FALSE
              /\ NonEmptyMsg(ret.value.error)
              /\ ret.value.processed_files = 0
              /\ ret.value.failed_files = 0

\* C10 witness: the call returned for a directory holding entries none of
\* which discovery accepts.
C10_Witness ==
    /\ pc = "returned"
    /\ tree # {}
    /\ _find_files(dirState, tree, pattern, recursive) = <<>>
    /\ ret.value.processed_files = 0

\* The paths of the regular files of tree t whose name ends in ".pdf"
\* whatever its case: those directly in the directory, or with rec those of
\* the whole subtree
RegularPdfs(t, rec) ==
    {Join(e.root, e.name) :
        e \in {x \in t : /\ x.kind = "file"
                         /\ EndsWith(Lower(x.name), PdfSuffix)
                         /\ (rec \/ x.root = InputDir)}}

Ascending(s) == \A i \in 1..(Len(s) - 1) : StrLess(s[i], s[i + 1])

\* C11: discovery returns exactly the regular files whose name ends in
\* ".pdf" compared case-insensitively: those directly in the directory
\* without recursive, those of the whole subtree with it; the list is
\* sorted ascending and holds each file once.
C11_DiscoveryExact ==
    (pc = "found" /\ dirState = "ok") =>
        /\ Range(files) = RegularPdfs(tree, recursive)
        /\ Ascending(files)

\* C12: on a directory that is missing or cannot be listed, discovery
\* raises nothing and returns the empty list in both modes, and
\* process_directory ends with the "no files found" result, never with an
\* exception.
C12_UnlistableDirectory ==
    dirState # "ok" =>
        /\ ~_find_files_raises(dirState, recursive)
        /\ _find_files(dirState, tree, pattern, recursive) = <<>>
        /\ pc \in {"start", "returned"}
        /\ pc = "returned" => ret = NoFilesResult

\* C12 witness: a non-recursive call returned for a directory that holds a
\* PDF file and cannot be listed.
C12_Witness ==
    /\ pc = "returned"
    /\ dirState = "unreadable"
    /\ ~recursive
    /\ RegularPdfs(tree, FALSE) # {}

\* fnmatch for the patterns "*<suffix>", compared case-insensitively
GlobMatch(name, pat) ==
    /\ pat # <<>>
    /\ Head(pat) = 42
    /\ EndsWith(Lower(name), Lower(Tail(pat)))

\* C13: file_pattern controls discovery: every discovered file has a name
\* that matches the file_pattern given.
C13_PatternControlsDiscovery ==
    pc = "found" =>
        \A i \in DOMAIN files : GlobMatch(Basename(files[i]), pattern)

\* Every file of the batch is a valid PDF: its library call returned True
AllValid == \A i \in DOMAIN libLog : libLog[i] = Returns("True")

\* C14: a batch of N valid files processed with clean_metadata returns
\* success_count = N and failure_count = 0, each success record names the
\* output path <output_dir>/<input stem>_processed.pdf, and N distinct
\* output files exist at those paths.
C14_ValidBatch ==
    (/\ pc = "returned"
     /\ operation = "clean_metadata"
     /\ files # <<>>
     /\ AllValid
     /\ NoCallbackRaised) =>
        LET N == Len(files)
            recs == ret.value.processed_files
            paths == {recs[k].output_path : k \in DOMAIN recs}
        IN  /\ ret.value.success_count = N
            /\ ret.value.failure_count = 0
            /\ \A k \in DOMAIN recs :
                  recs[k].output_path =
                      OutputFile(recs[k].file_path, OutputDir)
            /\ Cardinality(paths) = N
            /\ paths \subseteq DOMAIN disk

\* C15: with encryption_level LOW, MEDIUM or HIGH (MEDIUM when absent),
\* every file the encrypt operation reports as success has an output file
\* written with encryption at that level.
C15_EncryptedAtRequestedLevel ==
    (/\ operation = "encrypt"
     /\ PassedLevel(params).name \in {"LOW", "MEDIUM", "HIGH"}) =>
        \A i \in DOMAIN tasks :
            (TaskOver(i) /\ tasks[i].result.success) =>
                /\ tasks[i].output_file \in DOMAIN disk
                /\ disk[tasks[i].output_file].encryption =
                      PassedLevel(params).name

\* a = b, a <= b and a >= 0 for fractions with positive denominators
FracEq(a, b) == a.num * b.den = b.num * a.den
FracLeq(a, b) == a.num * b.den <= b.num * a.den
FracNonNeg(a) == a.num >= 0

\* C16: get_progress never raises and, for every tracker state, total 0
\* included, reports success = processed - failed, progress_percent =
\* processed / total * 100 (0 when total is 0) and is_complete =
\* (processed >= total); the tracker of an empty batch reports
\* progress_percent 0 and is_complete true.
C16_ProgressArithmetic ==
    snap.called =>
        LET v == snap.value
        IN  /\ ~snap.raised
            /\ v.success = v.processed - v.failed
            /\ IF v.total = 0
               THEN FracEq(v.progress_percent, Zero)
               ELSE /\ v.progress_percent.den # 0
                    /\ v.progress_percent.num * v.total =
                          v.processed * 100 * v.progress_percent.den
            /\ v.is_complete = (v.processed >= v.total)
            /\ (v.total = 0 /\ v.processed = 0) =>
                  FracEq(v.progress_percent, Zero) /\ v.is_complete

\* C16 witness: get_progress was called on the tracker of an empty batch
\* after time has passed.
C16_Witness ==
    /\ snap.called
    /\ snap.value.total = 0
    /\ snap.value.elapsed_time > 0
    /\ snap.value.is_complete

\* C17: estimated_remaining is 0 before any update_progress call, is never
\* negative, and does not grow from one file completion to the next,
\* whatever the completion times.
C17_EstimatedRemaining ==
    /\ snap.called =>
          /\ FracNonNeg(snap.value.estimated_remaining)
          /\ snap.value.processed = 0 =>
                FracEq(snap.value.estimated_remaining, Zero)
    /\ \A k \in 1..(Len(estLog) - 1) : FracLeq(estLog[k + 1], estLog[k])

\* C18: bounded parallelism. At most max_workers file operations execute
\* at the same time, and exactly one task is submitted per discovered file.
C18_BoundedParallelism ==
    /\ Cardinality(Running) <= max_workers
    /\ pc # "start" =>
          /\ Len(tasks) = Len(files)
          /\ Len(files) = Len(_find_files(dirState, tree, pattern, recursive))
          /\ Len(queue) + Cardinality({i \in DOMAIN tasks :
                                          tasks[i].state # "queued"})
                = Len(files)
          /\ \A j, k \in DOMAIN queue : j # k => queue[j] # queue[k]
          /\ \A j \in DOMAIN queue : tasks[queue[j]].state = "queued"

\* C18 witness: a task waits in the queue while max_workers operations run.
C18_Witness ==
    /\ queue # <<>>
    /\ Cardinality(Running) = max_workers

\* C19: join before return. Once process_directory has ended, by returning
\* or by propagating an exception, no submitted task is running or still
\* queued.
C19_JoinBeforeReturn ==
    pc \in {"returned", "raised"} =>
        /\ queue = <<>>
        /\ \A i \in DOMAIN tasks : tasks[i].state \notin {"queued", "running"}

\* C19 witness: the call ended with an exception after a task that was
\* still queued when the exception was raised had run.
C19_Witness ==
    /\ pc = "raised"
    /\ \E i \in DOMAIN tasks : tasks[i].state = "done"

\* C20: the command line exits with code 0 on every completed run, failed
\* files or not; with code 1 when the --metadata string is not JSON, and
\* then before the output directory is made or any file touched; and with
\* code 1 when the top-level batch invocation raises.
C20_ExitCodes ==
    /\ pc = "cli" =>
          /\ (cli.pc = "exited" /\ cli.report_written) => cli.exit = 0
          /\ (cli.pc = "exited" /\ cli.raised) => cli.exit = 1
          /\ (cli.pc = "exited" /\ ~cli.input_exists) => cli.exit = 1
    /\ (/\ pc = "cli"
        /\ cli.metadata.given
        /\ JsonLoadsRaises(cli.metadata.text)) =>
          /\ cli.pc \in {"args", "exited"}
          /\ cli.pc = "exited" => cli.exit = 1
          /\ ~cli.out_dir_made
          /\ cli.touched = 0
          /\ ~cli.report_written

\* How many times x occurs in the list l
Occurrences(l, x) == Cardinality({i \in DOMAIN l : l[i] = x})

\* C21: find_pdf_files returns every top-level file whose extension is
\* ".pdf" whatever its case, each exactly once, whether or not names are
\* matched case-sensitively; the list is sorted.
C21_CliDiscovery ==
    (pc = "cli" /\ cli.pc \in {"batch", "end"}) =>
        /\ \A n \in cli.names :
              EndsWith(Lower(n), PdfSuffix) => Occurrences(cli.pdf_files, n) = 1
        /\ \A i \in 1..(Len(cli.pdf_files) - 1) :
              ~StrLess(cli.pdf_files[i + 1], cli.pdf_files[i])

\* C29: the output files of distinct successfully processed inputs of the
\* command line's batch are pairwise distinct, and no file that was in the
\* output directory before the run is overwritten, whatever names the
\* random file-name generator returns.
C29_CliOutputsDistinct ==
    pc = "cli" =>
        /\ \A i, j \in DOMAIN cli.results :
              (/\ cli.results[i].success
               /\ cli.results[j].success
               /\ cli.results[i].input_file # cli.results[j].input_file) =>
                  cli.results[i].output_file # cli.results[j].output_file
        /\ \A n \in cli.old_files : cli.out_dir[n].source = <<>>

\* m restricted to the keys in K
Restrict(m, K) == [k \in (DOMAIN m) \cap K |-> m[k]]

\* C22: after any registered operation was called on any params mapping,
\* the arguments of its library call, the outcomes that call can have and
\* the file's result record are those of the mapping without the keys the
\* operation does not read; a key it reads and the mapping lacks has its
\* documented default (compress mode medium, watermark text WATERMARK,
\* encrypt level MEDIUM, split pages_per_file 1, bypass_scribd file_type
\* document); and the mapping is what the caller passed.
C22_ParamsReadByKey ==
    (pc = "component" /\ opcall.pc = "called") =>
        LET op == opcall.operation
            given == opcall.given
            known == Restrict(given, KeysRead(op))
            args == opcall.args
            Missing(o, k) == op = o /\ k \notin DOMAIN given
        IN  /\ args = LibArgs(op, known)
            /\ opcall.lib \in LibOutcomes(op, known)
            /\ opcall.result =
                   _process_single_file(opcall.result.file_path, OutputDir,
                                        op, known, opcall.lib)
            /\ Missing("compress", "mode") => args.mode = "medium"
            /\ Missing("watermark", "text") => args.text = "WATERMARK"
            /\ Missing("encrypt", "encryption_level") =>
                   args.encryption_level = Str("MEDIUM")
            /\ Missing("split", "pages_per_file") => args.pages_per_file = 1
            /\ Missing("bypass_scribd", "file_type") =>
                   args.file_type = "document"
            /\ opcall.params = given

C22_Witness ==
    /\ pc = "component"
    /\ opcall.pc = "called"
    /\ opcall.operation = "compress"
    /\ DOMAIN opcall.given = {"verbose"}
    /\ opcall.result.success = FALSE

\* The name of part i (1-based, below 10) of "in/a.pdf" under "out"
PartPath(i) ==
    OutputDir \o <<47, 97>> \o PartInfix \o <<48, 48, 48 + i>> \o PdfSuffix

\* C23: when split_by_pages_per_file returns its list for a PDF of T >= 1
\* pages and k >= 1 pages per file, the list holds ceil(T/k) files named
\* <stem>_part_001, _part_002, ... in order, these are the files written,
\* part i (0-based) holds the pages i*k .. min((i+1)*k, T)-1 in order,
\* every part has between 1 and k pages and every page is in exactly one
\* part.
C23_SplitPartitions ==
    (/\ pc = "component" /\ split.pc = "returned" /\ ~split.caught
     /\ split.total_pages >= 1 /\ split.pages_per_file >= 1) =>
        LET T == split.total_pages
            k == split.pages_per_file
            n == CHOOSE c \in 1..T : c * k >= T /\ (c - 1) * k < T
            part(i) == split.written[split.ret[i]]
        IN  /\ Len(split.ret) = n
            /\ DOMAIN split.written = Range(split.ret)
            /\ \A i \in 1..n :
                  /\ split.ret[i] = PartPath(i)
                  /\ part(i) = PyRange((i - 1) * k, Min(i * k, T))
                  /\ Len(part(i)) \in 1..k
            /\ \A p \in 0..(T - 1) :
                  Cardinality({i \in 1..n : p \in Range(part(i))}) = 1

C23_Witness ==
    /\ pc = "component"
    /\ split.pc = "returned"
    /\ ~split.caught
    /\ split.total_pages = 4
    /\ split.pages_per_file = 3
    /\ Len(split.ret) = 2

\* C28: when split_by_pages_per_file returns for pages_per_file < 1, it
\* has written no file, its list is empty and the split operation reports
\* failure.
C28_NonPositivePagesPerFile ==
    (pc = "component" /\ split.pc = "returned" /\ split.pages_per_file < 1) =>
        /\ DOMAIN split.written = {}
        /\ split.ret = <<>>
        /\ ~split.success

\* The records of file f in a list of result records
RecordsOf(l, f) == {k \in DOMAIN l : l[k].file_path = f}

\* C24: when process_directory has ended, every discovered file has at
\* most one record in processed_files and failed_files taken together, and
\* exactly one when the call returned.
C24_OneOutcomePerFile ==
    (Ended /\ files # <<>>) =>
        \A i \in DOMAIN files :
            LET n == Cardinality(RecordsOf(results.processed_files, files[i]))
                     + Cardinality(RecordsOf(results.failed_files, files[i]))
            IN  /\ n <= 1
                /\ pc = "returned" => n = 1

\* C26: for the compress and convert operations, a file whose library
\* call completed without raising and wrote the output file has a result
\* record with success true, and that record is in processed_files once
\* the file has been collected.
C26_LibrarySuccessRecorded ==
    \A i \in DOMAIN tasks :
        (/\ operation \in {"compress", "convert"}
         /\ TaskOver(i)
         /\ ~libLog[i].raised
         /\ WritesOutput(operation, libLog[i])) =>
            /\ tasks[i].result.success
            /\ tasks[i].state = "yielded" =>
                  RecordsOf(results.processed_files, files[i]) # {}

\* C25: under fair scheduling a call of process_directory eventually ends,
\* every discovered file's task has then run exactly once, and the call has
\* returned its result record unless the callback raised twice for one
\* file, in which case the second exception has left the call.
C25_Termination ==
    <>(/\ Ended
       /\ \A i \in DOMAIN tasks : tasks[i].runs = 1 /\ TaskOver(i)
       /\ Len(tasks) = Len(files)
       /\ (\A i \in DOMAIN cbRaises : cbRaises[i] <= 1) => pc = "returned")

C25_Witness ==
    /\ pc = "returned"
    /\ Len(files) = 2
    /\ max_workers = 1
    /\ \A i \in DOMAIN tasks : tasks[i].runs = 1

\* C27: tasks of one batch that are between saving and moving have
\* intermediate files of different names, and a task that is done has
\* succeeded and its <stem>_processed.pdf holds the content made from its
\* own input.
C27_BypassTasksApart ==
    pc = "component" /\ byp.pc = "run" =>
        /\ \A i, j \in 1..NBypTasks :
              (/\ i # j
               /\ byp.task[i].pc = "move"
               /\ byp.task[j].pc = "move") =>
                  byp.task[i].result # byp.task[j].result
        /\ \A i \in 1..NBypTasks :
              byp.task[i].pc = "done" =>
                  /\ byp.task[i].success
                  /\ ProcessedName(i) \in DOMAIN byp.dir
                  /\ byp.dir[ProcessedName(i)] = i

\* C30: when change_password has returned, the temporary file does not
\* exist, and if it returned False the output file holds nothing decrypted.
C30_PasswordChangeCleansUp ==
    (pc = "component" /\ pw.pc = "returned") =>
        /\ pw.temp_file = Absent
        /\ pw.returned = "False" =>
              pw.output_file.kind \notin {"decrypted", "decrypted in part"}

====
